---- MODULE Spec2Model ----
(***************************************************************************)
(* A model of pytermgui's terminal layer (src/pytermgui/terminal.py):      *)
(* ColorSystem, Recorder and Terminal, and of its RegexHighlighter         *)
(* (src/pytermgui/highlighters.py).                                        *)
(*                                                                         *)
(* Text is modelled as a sequence of characters.  A character is a triple  *)
(* <<kind, p, q>>: a printable character carries its display width in p,   *)
(* a line boundary is "LF" or "CR", and a control sequence is one triple   *)
(* holding its final byte and its parameters ("H" row col, "J" 2, "m" n).  *)
(* Environment-variable values are sequences of one-character strings.     *)
(***************************************************************************)
EXTENDS Integers, Sequences, FiniteSets, TLC

VARIABLES
    phase,               \* "new" | "ready" | "failed": Terminal.__init__ not run / returned / raised
    environ,             \* os.environ: PTG_COLORSYS, NO_COLOR, COLORTERM
    _forced_colorsystem, \* Terminal._forced_colorsystem
    cs_cache,            \* the cached_property slot "colorsystem" in the instance __dict__
    cs_read,             \* value returned by the latest read of colorsystem since the last assignment
    cs_reads,            \* number of caller reads of colorsystem since construction
    cs_memo_before,      \* value that was memoized when forced_colorsystem was last assigned
    init_error,          \* exception that escaped Terminal.__init__
    term,                \* the terminal device: columns, rows, tty-ness, pixel-size reply
    now,                 \* time.time()
    size,                \* Terminal.size
    pixel_size,          \* Terminal.pixel_size
    _listeners,          \* Terminal._listeners: event -> list of callbacks
    _recorder,           \* Terminal._recorder: 0 (None) or an index into recorders
    recorders,           \* every Recorder constructed so far: [recording, _start_stamp]
    _cursor,             \* Terminal._cursor
    _stream,             \* content of Terminal._stream, one element per stream.write
    flushed,             \* whether the stream's buffer has been flushed since its last write
    err,                 \* exception surfaced to the caller by the latest call, or None
    in_scope,            \* the caller is inside a "with terminal.record()" body
    pc,                  \* main control flow: "idle" | "replay"
    rp,                  \* Terminal.replay locals: [rec, i, last_time, slept]
    hpc,                 \* _update_size position: "none" | "size" | "pixel" | "dispatch" | "clear"
    h_i,                 \* _call_listener: index of the next callback of the loop
    htrace,              \* history: what the latest run of _update_size has done so far
    budget,              \* Terminal.write calls the run may still make
    calls,               \* history: every Terminal.write call, [data, pos, flush, by]
    scopes,              \* history: per recorder, [from, to, rejected]: the lengths of calls
                         \* when its scope was entered, was left (-1 inside), and when
                         \* a second record() was last refused inside it (-1 if never)
    written,             \* history: every chunk handed to stream.write, in order
    wpc,                 \* position of the Terminal.write call in progress in the main flow:
                         \* "none" | "clear" | "record" | "stream" | "flush" | "cursor"
    wcall,               \* that call's arguments and locals: [data, pos, flush]
    styles,              \* RegexHighlighter.styles
    prefix,              \* RegexHighlighter.prefix
    _pattern,            \* RegexHighlighter._pattern: the styles it was compiled from
    _highlight_cache,    \* RegexHighlighter._highlight_cache: text -> highlighted text
    hcall,               \* the latest highlighter call: [text, cache, ret, matched, n]:
                         \* arguments, result, whether the matching logic ran, and a
                         \* bit that flips at every call
    arg,                 \* argument of the function whose result is examined
    ret                  \* its result

\* the write in progress, the highlighter, and the function under examination
intrVars == <<wpc, wcall>>
hlVars == <<styles, prefix, _pattern, _highlight_cache, hcall>>
fnVars == <<arg, ret>>
otherVars == <<intrVars, hlVars, fnVars>>

colorVars == <<phase, environ, _forced_colorsystem, cs_cache, cs_read, cs_reads,
               cs_memo_before, init_error>>

None == "None"

----------------------------------------------------------------------------
(* Bounds of the model.                                                    *)

MaxReads == 2        \* reads of colorsystem per run
MaxCalls == 2        \* Terminal.write calls per run
MaxRecorders == 2    \* recording scopes entered per run
MaxClock == 12       \* latest time the clock reaches on its own, in ticks of 10 ms
MaxEntries == 3      \* entries of a recording made before the run
MaxReplayed == 3     \* Terminal.write calls per run of the replay specification
MaxListeners == 3    \* subscriptions per run

----------------------------------------------------------------------------
(* ColorSystem(Enum)                                                       *)

ColorSystem == {"NO_COLOR", "STANDARD", "EIGHT_BIT", "TRUE"}

\* str.lower() on the characters environment values are drawn from
LowerChar(c) ==
    CASE c = "T" -> "t"
      [] c = "R" -> "r"
      [] c = "U" -> "u"
      [] c = "E" -> "e"
      [] c = "C" -> "c"
      [] c = "O" -> "o"
      [] c = "L" -> "l"
      [] c = "B" -> "b"
      [] c = "I" -> "i"
      [] OTHER   -> c

Lower(s) == [i \in 1..Len(s) |-> LowerChar(s[i])]

IsSpace(c) == c \in {" ", "\t", "\n"}

\* str.strip(): drop leading and trailing whitespace
RECURSIVE LStrip(_)
LStrip(s) == IF s # <<>> /\ IsSpace(Head(s)) THEN LStrip(Tail(s)) ELSE s

RECURSIVE RStrip(_)
RStrip(s) ==
    IF s # <<>> /\ IsSpace(s[Len(s)]) THEN RStrip(SubSeq(s, 1, Len(s) - 1)) ELSE s

Strip(s) == RStrip(LStrip(s))

\* os.getenv(name, default): a variable is [set |-> BOOLEAN, val |-> value]
getenv(var, default) == IF var.set THEN var.val ELSE default

S_24bit == <<"2", "4", "b", "i", "t">>
S_truecolor == <<"t", "r", "u", "e", "c", "o", "l", "o", "r">>
S_256color == <<"2", "5", "6", "c", "o", "l", "o", "r">>

\* Which raised exceptions an "except <cls>" clause catches (subclass relation)
Catches(cls, exc) ==
    \/ exc = cls
    \/ cls = "LookupError" /\ exc \in {"KeyError", "IndexError"}
    \/ cls = "NameError" /\ exc = "UnboundLocalError"
    \/ cls = "Exception"

\* ColorSystem[name]: Enum lookup by member name, KeyError when there is none
EnumByName(name) ==
    IF name \in ColorSystem THEN [raised |-> None, value |-> name]
    ELSE [raised |-> "KeyError", value |-> None]

_get_env_colorsys_except == "NameError"

\* _get_env_colorsys(): [raised, value]
_get_env_colorsys(env) ==
    IF ~env.PTG_COLORSYS.set THEN [raised |-> None, value |-> None]
    ELSE LET r == EnumByName(env.PTG_COLORSYS.val) IN
         IF r.raised # None /\ Catches(_get_env_colorsys_except, r.raised)
         THEN [raised |-> None, value |-> None]
         ELSE r

\* a resolution that consults NO_COLOR before the override
colorsystem_NoColorFirst(forced, env) ==
    IF env.NO_COLOR.set THEN "NO_COLOR"
    ELSE IF forced # None THEN forced
    ELSE LET color_term == Lower(Strip(getenv(env.COLORTERM, <<>>))) IN
         IF color_term \in {S_24bit, S_truecolor} THEN "TRUE"
         ELSE IF color_term = S_256color THEN "EIGHT_BIT"
         ELSE "STANDARD"

\* Terminal.colorsystem: the body of the cached property
colorsystem(forced, env) ==
    IF forced # None THEN forced
    ELSE IF env.NO_COLOR.set THEN "NO_COLOR"
    ELSE LET color_term == Lower(Strip(getenv(env.COLORTERM, <<>>))) IN
         IF color_term \in {S_24bit, S_truecolor} THEN "TRUE"
         ELSE IF color_term = S_256color THEN "EIGHT_BIT"
         ELSE "STANDARD"

\* cached_property.__get__: the memoized value if the slot is filled, else the
\* freshly computed one (which it stores in the slot)
cached_get(cache, forced, env) ==
    IF cache # None THEN cache ELSE colorsystem(forced, env)

\* a setter that leaves the memoized value in place
forced_colorsystem_setter_NoDel(cache, new, env) ==
    cached_get(cache, new, env)

\* forced_colorsystem.setter: the cache slot after the assignment.  The new
\* override is stored first; hasattr() then evaluates the cached property,
\* which fills the slot when it is empty and never raises, so it answers True
\* and "del self.colorsystem" empties the slot.
forced_colorsystem_setter(cache, new, env) ==
    LET slot == cached_get(cache, new, env)
        has  == slot \in ColorSystem
    IN  IF has THEN None ELSE slot

----------------------------------------------------------------------------
(* Text.                                                                   *)

A   == <<"c", 1, 97>>      \* "a": one column wide
Wd  == <<"c", 2, 19990>>   \* a CJK character: two columns wide
SP  == <<"c", 1, 32>>      \* " "
LF  == <<"LF", 0, 0>>      \* "\n"
CR  == <<"CR", 0, 0>>      \* "\r": a line boundary that is not a newline
SGR == <<"m", 1, 0>>       \* "\x1b[1m"
CLS == <<"J", 2, 0>>       \* "\x1b[2J": the clear-screen sequence

\* "\x1b[{};{}H".format(row, col)
CUP(row, col) == <<"H", row, col>>

IsEscape(c) == c[1] \in {"H", "J", "m"}
IsLineBoundary(c) == c[1] \in {"LF", "CR"}

RECURSIVE Concat(_)
Concat(ss) == IF ss = <<>> THEN <<>> ELSE Head(ss) \o Concat(Tail(ss))

\* regex.strip_ansi: the text without its escape sequences
strip_ansi(text) == LET Keep(c) == ~IsEscape(c) IN SelectSeq(text, Keep)

\* columns a character takes once rendered (a bare line boundary counts as one
\* character)
CharWidth(c) == IF c[1] = "c" THEN c[2] ELSE 1

RECURSIVE SumWidth(_)
SumWidth(s) == IF s = <<>> THEN 0 ELSE CharWidth(Head(s)) + SumWidth(Tail(s))

\* regex.real_length: display width of the text, escape sequences not counted
real_length(text) == SumWidth(strip_ansi(text))

\* "".join(data.splitlines()): the text without its line boundaries
JoinSplitlines(data) == LET Keep(c) == ~IsLineBoundary(c) IN SelectSeq(data, Keep)

\* data.count("\n")
CountNewlines(data) == LET Keep(c) == c = LF IN Len(SelectSeq(data, Keep))

\* sep.join(items)
RECURSIVE Join(_, _)
Join(sep, items) ==
    IF items = <<>> THEN <<>>
    ELSE IF Len(items) = 1 THEN Head(items)
    ELSE Head(items) \o sep \o Join(sep, Tail(items))

----------------------------------------------------------------------------
(* Recorder                                                                *)

\* Recorder.__init__
Recorder(t) == [recording |-> <<>>, _start_stamp |-> t]

\* Recorder._content
_content(rec) == Concat([i \in 1..Len(rec.recording) |-> rec.recording[i][1]])

\* Recorder.write
Recorder_write(rec, data, t) ==
    [rec EXCEPT !.recording = Append(@, <<data, t - rec._start_stamp>>)]

\* Recorder.export_text
export_text(rec) == strip_ansi(_content(rec))

----------------------------------------------------------------------------
(* Terminal                                                                *)

RESIZE == 0
OTHER_EVENT == 1

origin == <<1, 1>>

\* Terminal._get_size: get_terminal_size() with the origin subtracted
_get_size(t) == <<t.cols - origin[1], t.rows - origin[2]>>

Digits == {"0", "1", "2", "3", "4", "5", "6", "7", "8", "9"}

DigitValue(d) == CHOOSE n \in 0..9 : ToString(n) = d

RECURSIVE Decimal(_)
Decimal(s) == IF s = <<>> THEN 0 ELSE 10 * Decimal(SubSeq(s, 1, Len(s) - 1)) + DigitValue(s[Len(s)])

\* int(val): [raised, value]
int(val) ==
    IF val # <<>> /\ \A i \in 1..Len(val) : val[i] \in Digits
    THEN [raised |-> None, value |-> Decimal(val)]
    ELSE [raised |-> "ValueError", value |-> 0]

\* output.split(";")
RECURSIVE split(_, _)
split(output, sep) ==
    IF \E i \in 1..Len(output) : output[i] = sep
    THEN LET i == CHOOSE k \in 1..Len(output) :
                    output[k] = sep /\ \A j \in 1..(k - 1) : output[j] # sep
         IN  <<SubSeq(output, 1, i - 1)>> \o split(SubSeq(output, i + 1, Len(output)), sep)
    ELSE <<output>>

\* getch()[4:-1]
Slice4(reply) == SubSeq(reply, 5, Len(reply) - 1)

\* Terminal._get_pixel_size, t.reply being what getch() returns after
\* "\x1b[14t" was written: [raised, value]
_get_pixel_size(t) ==
    IF t.tty /\ (\E i \in 1..Len(Slice4(t.reply)) : Slice4(t.reply)[i] = ";")
    THEN LET fields == split(Slice4(t.reply), ";")
             vals == [i \in 1..Len(fields) |-> int(fields[i])]
         IN  IF \E i \in 1..Len(vals) : vals[i].raised # None
             THEN [raised |-> "ValueError", value |-> <<0, 0>>]
             ELSE [raised |-> None, value |-> <<vals[2].value, vals[1].value>>]
    ELSE [raised |-> None, value |-> <<0, 0>>]

\* pos = None
NoPos == <<>>

\* Terminal.write: the data once the cursor-position sequence is prepended
positioned(data, pos) ==
    IF pos # NoPos THEN <<CUP(pos[2], pos[1])>> \o data ELSE data

\* forwarding to the most recently created recorder, attached or not
write_recorders_ToLatest(recs, active, data, pos, t) ==
    IF recs # <<>>
    THEN [recs EXCEPT ![Len(recs)] = Recorder_write(@, positioned(data, pos), t)]
    ELSE recs

\* forwarding the data without the cursor-position prefix
write_recorders_Unpositioned(recs, active, data, pos, t) ==
    IF active # 0
    THEN [recs EXCEPT ![active] = Recorder_write(@, data, t)]
    ELSE recs

\* Terminal.write: forwarding to the active recorder
write_recorders(recs, active, data, pos, t) ==
    IF active # 0
    THEN [recs EXCEPT ![active] = Recorder_write(@, positioned(data, pos), t)]
    ELSE recs

\* Terminal.write: clear_stream() when the data clears the screen, then
\* stream.write
write_stream(stream, data, pos) ==
    Append(IF \E i \in 1..Len(data) : data[i] = CLS THEN <<>> ELSE stream,
           positioned(data, pos))

\* a cursor that counts every line boundary as a newline
write_cursor_AllBoundaries(cursor, data, pos) ==
    LET d == positioned(data, pos) IN
    << cursor[1] + real_length(JoinSplitlines(d)),
       cursor[2] + Len(d) - Len(JoinSplitlines(d)) >>

\* Terminal.write: the cursor after the write
write_cursor(cursor, data, pos) ==
    LET d == positioned(data, pos) IN
    << cursor[1] + real_length(JoinSplitlines(d)),
       cursor[2] + CountNewlines(d) >>

\* Terminal.write(data, pos, flush), called by `by` at time t
write(data, pos, flush, by, t) ==
    /\ recorders' = write_recorders(recorders, _recorder, data, pos, t)
    /\ _stream' = write_stream(_stream, data, pos)
    /\ written' = Append(written, positioned(data, pos))
    /\ flushed' = flush
    /\ _cursor' = write_cursor(_cursor, data, pos)
    /\ calls' = Append(calls, [data |-> data, pos |-> pos, flush |-> flush, by |-> by])
    /\ budget' = budget - 1

----------------------------------------------------------------------------
(* The process environment at start-up.                                    *)

Unset == [set |-> FALSE, val |-> <<>>]
SetTo(v) == [set |-> TRUE, val |-> v]

ColorSysNames == {"NO_COLOR", "STANDARD", "EIGHT_BIT", "TRUE", "true", "RGB"}

ColorTermValues ==
    { <<>>, S_24bit, S_truecolor, S_256color,
      <<"T", "r", "u", "e", "C", "o", "l", "o", "r">>,
      <<" ", "2", "5", "6", "c", "o", "l", "o", "r", "\n">>,
      <<"2", "4", "B", "I", "T">>,
      <<"y", "e", "s">> }

Environs ==
    { [PTG_COLORSYS |-> p, NO_COLOR |-> n, COLORTERM |-> c] :
        p \in {[set |-> FALSE, val |-> ""]} \cup {[set |-> TRUE, val |-> x] : x \in ColorSysNames},
        n \in {Unset, SetTo(<<>>), SetTo(<<"1">>)},
        c \in {Unset} \cup {SetTo(v) : v \in ColorTermValues} }

\* An environment that sets none of the three variables
PlainEnviron ==
    [PTG_COLORSYS |-> [set |-> FALSE, val |-> ""], NO_COLOR |-> Unset, COLORTERM |-> Unset]

\* Terminal devices: a tty that answers the pixel-size query, and a pipe
Terms ==
    { [cols |-> 80, rows |-> 24, tty |-> TRUE, pixels |-> <<800, 600>>,
       reply |-> <<"ESC", "[", "4", ";", "6", "0", "0", ";", "8", "0", "0", "t">>],
      [cols |-> 120, rows |-> 40, tty |-> FALSE, pixels |-> <<0, 0>>, reply |-> <<>>] }

Callbacks == {"f", "g"}

NoReplay == [rec |-> 0, i |-> 0, last_time |-> 0, slept |-> <<>>]

termVars == <<term, now, size, pixel_size, _listeners, _recorder, recorders, _cursor,
              _stream, flushed, err, in_scope, pc, rp, hpc, h_i, htrace, budget,
              calls, scopes, written>>

vars == <<phase, environ, _forced_colorsystem, cs_cache, cs_read, cs_reads,
          cs_memo_before, init_error, term, now, size, pixel_size, _listeners,
          _recorder, recorders, _cursor, _stream, flushed, err, in_scope, pc, rp,
          hpc, h_i, htrace, budget, calls, scopes, written, otherVars>>

\* What Terminal.__init__ leaves in the fields other than the colour ones
Constructed(t) ==
    /\ size = _get_size(t)
    /\ pixel_size = _get_pixel_size(t).value
    /\ _listeners = <<>>
    /\ _recorder = 0
    /\ _cursor = origin

NoWrite == [data |-> <<>>, pos |-> NoPos, flush |-> FALSE]

\* no write is in progress
NoWriteInProgress == wpc = "none" /\ wcall = NoWrite

\* no highlighter has been constructed
NoHighlighter ==
    /\ styles = <<>>
    /\ prefix = <<>>
    /\ _pattern = <<>>
    /\ _highlight_cache = <<>>
    /\ hcall = None

\* no function is under examination
NoFunction == arg = None /\ ret = None

Elsewhere == NoWriteInProgress /\ NoHighlighter /\ NoFunction

Quiet ==
    /\ written = <<>>
    /\ now = 0
    /\ recorders = <<>>
    /\ _stream = <<>>
    /\ flushed = TRUE
    /\ err = None
    /\ in_scope = FALSE
    /\ pc = "idle"
    /\ rp = NoReplay
    /\ hpc = "none"
    /\ h_i = 0
    /\ htrace = <<>>
    /\ budget = MaxCalls
    /\ calls = <<>>
    /\ scopes = <<>>

\* Before Terminal() is called at import
InitColor ==
    /\ phase = "new"
    /\ environ \in Environs
    /\ _forced_colorsystem = None
    /\ cs_cache = None
    /\ cs_read = None
    /\ cs_reads = 0
    /\ cs_memo_before = None
    /\ init_error = None
    /\ term \in Terms
    /\ size = <<0, 0>>
    /\ pixel_size = <<0, 0>>
    /\ _listeners = <<>>
    /\ _recorder = 0
    /\ _cursor = <<0, 0>>
    /\ Quiet
    /\ Elsewhere

\* Terminal.__init__: forced_colorsystem is seeded from the environment
Construct ==
    /\ phase = "new"
    /\ LET r == _get_env_colorsys(environ) IN
       IF r.raised # None
       THEN /\ phase' = "failed"
            /\ init_error' = r.raised
            /\ _cursor' = origin
            /\ size' = _get_size(term)
            /\ UNCHANGED <<_forced_colorsystem, cs_cache, pixel_size>>
       ELSE /\ phase' = "ready"
            /\ init_error' = None
            /\ _cursor' = origin
            /\ size' = _get_size(term)
            /\ _forced_colorsystem' = r.value
            /\ cs_cache' = forced_colorsystem_setter(cs_cache, r.value, environ)
            /\ pixel_size' = _get_pixel_size(term).value
    /\ UNCHANGED <<otherVars, environ, cs_read, cs_reads, cs_memo_before, term, now, _listeners,
                   _recorder, recorders, _stream, written, flushed, err, in_scope, pc, rp,
                   hpc, h_i, htrace, budget, calls, scopes>>

\* terminal.forced_colorsystem = new
SetForced(new) ==
    /\ phase = "ready"
    /\ _forced_colorsystem' = new
    /\ cs_cache' = forced_colorsystem_setter(cs_cache, new, environ)
    /\ cs_memo_before' = cs_cache
    /\ cs_read' = None
    /\ UNCHANGED <<phase, environ, cs_reads, init_error>>
    /\ UNCHANGED <<termVars, otherVars>>

\* terminal.colorsystem (cached_property.__get__)
ReadColorsystem ==
    /\ phase = "ready"
    /\ cs_reads < MaxReads
    /\ LET v == cached_get(cs_cache, _forced_colorsystem, environ) IN
       /\ cs_cache' = v
       /\ cs_read' = v
    /\ cs_reads' = cs_reads + 1
    /\ UNCHANGED <<phase, environ, _forced_colorsystem, cs_memo_before, init_error>>
    /\ UNCHANGED <<termVars, otherVars>>

NextColor ==
    \/ Construct
    \/ \E new \in ColorSystem \cup {None} : SetForced(new)
    \/ ReadColorsystem

SpecColor == InitColor /\ [][NextColor]_vars

----------------------------------------------------------------------------
(* The constructed Terminal in use.                                        *)

\* After "terminal = Terminal()" succeeded in a plain environment
Ready ==
    /\ phase = "ready"
    /\ environ = PlainEnviron
    /\ _forced_colorsystem = None
    /\ cs_cache = None
    /\ cs_read = None
    /\ cs_reads = 0
    /\ cs_memo_before = None
    /\ init_error = None
    /\ term = CHOOSE t \in Terms : t.tty
    /\ Constructed(term)
    /\ Quiet

Init == Ready /\ Elsewhere

\* What callers write
WriteInputs ==
    { [data |-> <<A, LF, Wd>>, pos |-> <<2, 3>>, flush |-> TRUE],
      [data |-> <<SGR, Wd, CR, LF>>, pos |-> NoPos, flush |-> FALSE] }

PrintInputs ==
    { [items |-> <<<<A>>, <<Wd>>>>, pos |-> NoPos] }

Main == phase = "ready" /\ pc = "idle" /\ hpc = "none" /\ wpc = "none"

\* time passes
Tick(dt) ==
    /\ Main
    /\ now + dt <= MaxClock
    /\ now' = now + dt
    /\ UNCHANGED <<otherVars, phase, environ, _forced_colorsystem, cs_cache, cs_read, cs_reads,
                   cs_memo_before, init_error, term, size, pixel_size, _listeners,
                   _recorder, recorders, _cursor, _stream, written, flushed, err, in_scope,
                   pc, rp, hpc, h_i, htrace, budget, calls, scopes>>

\* terminal.write(data, pos, flush)
Write(inp) ==
    /\ Main
    /\ budget > 0
    /\ write(inp.data, inp.pos, inp.flush, "write", now)
    /\ err' = None
    /\ UNCHANGED <<otherVars, colorVars, term, now, size, pixel_size, _listeners, _recorder,
                   in_scope, pc, rp, hpc, h_i, htrace, scopes>>

\* terminal.print(*items, pos=pos): sep " ", end "\n", flush True
PrintCall(inp) ==
    /\ Main
    /\ budget > 0
    /\ write(Join(<<SP>>, inp.items) \o <<LF>>, inp.pos, TRUE, "print", now)
    /\ err' = None
    /\ UNCHANGED <<otherVars, colorVars, term, now, size, pixel_size, _listeners, _recorder,
                   in_scope, pc, rp, hpc, h_i, htrace, scopes>>

\* a record() that never refuses
record_occupied_Never(active) == FALSE

\* Terminal.record: "if self._recorder is not None: raise RuntimeError"
record_occupied(active) == active # 0

\* with terminal.record() as recorder: entering the scope
RecordEnter ==
    /\ Main
    /\ IF record_occupied(_recorder)
       THEN /\ err' = "RuntimeError"
            /\ scopes' = IF _recorder # 0
                         THEN [scopes EXCEPT ![_recorder].rejected = Len(calls)]
                         ELSE scopes
            /\ UNCHANGED <<_recorder, recorders, in_scope>>
       ELSE /\ Len(recorders) < MaxRecorders
            /\ recorders' = Append(recorders, Recorder(now))
            /\ _recorder' = Len(recorders) + 1
            /\ in_scope' = TRUE
            /\ err' = None
            /\ scopes' = Append(scopes, [from |-> Len(calls), to |-> -1, rejected |-> -1])
    /\ UNCHANGED <<otherVars, colorVars, term, now, size, pixel_size, _listeners, _cursor,
                   _stream, written, flushed, pc, rp, hpc, h_i, htrace, budget, calls>>

\* a release that runs on normal exit only
record_finally_OnReturnOnly(active, how) == IF how = "return" THEN 0 ELSE active

\* Terminal.record: "finally: self._recorder = None"
record_finally(active, how) == 0

\* leaving the with-body, by falling off its end or by an exception
RecordExit(how) ==
    /\ Main
    /\ in_scope
    /\ _recorder' = record_finally(_recorder, how)
    /\ in_scope' = FALSE
    /\ err' = IF how = "raise" THEN "BodyError" ELSE None
    /\ scopes' = [scopes EXCEPT ![Len(scopes)].to = Len(calls)]
    /\ UNCHANGED <<otherVars, colorVars, term, now, size, pixel_size, _listeners, recorders,
                   _cursor, _stream, written, flushed, pc, rp, hpc, h_i, htrace, budget, calls>>

\* terminal.replay(recorder): the call, up to the loop
ReplayCall(r) ==
    /\ Main
    /\ budget > 0
    /\ r \in 1..Len(recorders)
    /\ pc' = "replay"
    /\ rp' = [rec |-> r, i |-> 1, last_time |-> 0, slept |-> <<>>]
    /\ err' = None
    /\ UNCHANGED <<otherVars, colorVars, term, now, size, pixel_size, _listeners, _recorder,
                   recorders, _cursor, _stream, written, flushed, in_scope, hpc, h_i, htrace,
                   budget, calls, scopes>>

\* Terminal.replay: "if last_time > 0.0: time.sleep(delay - last_time)"; the
\* time slept before the write, 0 when sleep is not called
replay_delay(last_time, delay) == IF last_time > 0 THEN delay - last_time ELSE 0

\* Terminal.replay: one iteration of the loop over recorder.recording
ReplayStep ==
    /\ phase = "ready" /\ pc = "replay" /\ hpc = "none"
    /\ rp.i <= Len(recorders[rp.rec].recording)
    /\ budget > 0
    /\ LET entry == recorders[rp.rec].recording[rp.i]
           d == replay_delay(rp.last_time, entry[2])
       IN /\ now' = now + d
          /\ write(entry[1], NoPos, TRUE, "replay", now + d)
          /\ rp' = [rp EXCEPT !.i = @ + 1, !.last_time = entry[2],
                              !.slept = Append(@, d)]
    /\ UNCHANGED <<otherVars, colorVars, term, size, pixel_size, _listeners, _recorder, err,
                   in_scope, pc, hpc, h_i, htrace, scopes>>

\* Terminal.replay: the loop is exhausted
ReplayReturn ==
    /\ phase = "ready" /\ pc = "replay" /\ hpc = "none"
    /\ rp.i > Len(recorders[rp.rec].recording)
    /\ pc' = "idle"
    /\ rp' = NoReplay
    /\ UNCHANGED <<otherVars, colorVars, term, now, size, pixel_size, _listeners, _recorder,
                   recorders, _cursor, _stream, written, flushed, err, in_scope, hpc, h_i,
                   htrace, budget, calls, scopes>>

\* Terminal.subscribe: the listeners after the call
subscribe(listeners, event, callback) ==
    LET base == IF event \in DOMAIN listeners THEN listeners
                ELSE [e \in DOMAIN listeners \cup {event} |->
                        IF e = event THEN <<>> ELSE listeners[e]]
    IN  [base EXCEPT ![event] = Append(@, callback)]

\* the callbacks subscribed to an event, in list order
Subscribed(listeners, event) ==
    IF event \in DOMAIN listeners THEN listeners[event] ELSE <<>>

\* terminal.subscribe(event, callback)
Subscribe(event, callback) ==
    /\ Main
    /\ Len(Subscribed(_listeners, RESIZE)) + Len(Subscribed(_listeners, OTHER_EVENT))
         < MaxListeners
    /\ _listeners' = subscribe(_listeners, event, callback)
    /\ err' = None
    /\ UNCHANGED <<otherVars, colorVars, term, now, size, pixel_size, _recorder, recorders,
                   _cursor, _stream, written, flushed, in_scope, pc, rp, hpc, h_i, htrace,
                   budget, calls, scopes>>

\* the notification (SIGWINCH): the window changes and _update_size is entered
Sigwinch(t) ==
    /\ phase = "ready"
    /\ hpc = "none"
    /\ budget > 0
    /\ t # term
    /\ term' = t
    /\ hpc' = "size"
    /\ htrace' = <<>>
    /\ UNCHANGED <<otherVars, colorVars, now, size, pixel_size, _listeners, _recorder, recorders,
                   _cursor, _stream, written, flushed, err, in_scope, pc, rp, h_i, budget,
                   calls, scopes>>

\* Terminal._update_size: "self.size = self._get_size()"
UpdateSize_size ==
    /\ hpc = "size"
    /\ size' = _get_size(term)
    /\ hpc' = "pixel"
    /\ htrace' = Append(htrace, <<"size", "", _get_size(term)>>)
    /\ UNCHANGED <<otherVars, colorVars, term, now, pixel_size, _listeners, _recorder, recorders,
                   _cursor, _stream, written, flushed, err, in_scope, pc, rp, h_i, budget,
                   calls, scopes>>

\* Terminal._update_size: "self.pixel_size = self._get_pixel_size()"
UpdateSize_pixel_size ==
    /\ hpc = "pixel"
    /\ pixel_size' = _get_pixel_size(term).value
    /\ hpc' = "dispatch"
    /\ h_i' = 1
    /\ htrace' = Append(htrace, <<"pixel_size", "", _get_pixel_size(term).value>>)
    /\ UNCHANGED <<otherVars, colorVars, term, now, size, _listeners, _recorder, recorders,
                   _cursor, _stream, written, flushed, err, in_scope, pc, rp, budget, calls,
                   scopes>>

\* a dispatch in reverse subscription order
_call_listener_order_Reversed(callbacks, i) == callbacks[Len(callbacks) + 1 - i]

\* Terminal._call_listener: the callback the i-th iteration of the loop calls
_call_listener_order(callbacks, i) == callbacks[i]

\* Terminal._call_listener(self.RESIZE, self.size): one callback, or the end of
\* the loop
CallListener ==
    /\ hpc = "dispatch"
    /\ IF RESIZE \in DOMAIN _listeners /\ h_i <= Len(_listeners[RESIZE])
       THEN /\ htrace' = Append(htrace,
                   <<"call", _call_listener_order(_listeners[RESIZE], h_i), size>>)
            /\ h_i' = h_i + 1
            /\ hpc' = hpc
       ELSE /\ hpc' = "clear"
            /\ h_i' = 0
            /\ htrace' = htrace
    /\ UNCHANGED <<otherVars, colorVars, term, now, size, pixel_size, _listeners, _recorder,
                   recorders, _cursor, _stream, written, flushed, err, in_scope, pc, rp,
                   budget, calls, scopes>>

\* Terminal._update_size: self.write("\x1b[2J"), and the handler returns
UpdateSize_write ==
    /\ hpc = "clear"
    /\ write(<<CLS>>, NoPos, FALSE, "resize", now)
    /\ hpc' = "none"
    /\ htrace' = Append(htrace, <<"write", "", <<Len(calls) + 1, 0>>>>)
    /\ UNCHANGED <<otherVars, colorVars, term, now, size, pixel_size, _listeners, _recorder,
                   err, in_scope, pc, rp, h_i, scopes>>

UpdateSize ==
    \/ UpdateSize_size
    \/ UpdateSize_pixel_size
    \/ CallListener
    \/ UpdateSize_write

Next ==
    \/ \E inp \in WriteInputs : Write(inp)
    \/ \E inp \in PrintInputs : PrintCall(inp)
    \/ RecordEnter
    \/ \E how \in {"return", "raise"} : RecordExit(how)
    \/ \E r \in 1..MaxRecorders : ReplayCall(r)
    \/ ReplayStep
    \/ ReplayReturn
    \/ \E t \in Terms : Sigwinch(t)
    \/ UpdateSize

Spec == Init /\ [][Next]_vars

NextResize ==
    \/ \E e \in {RESIZE, OTHER_EVENT}, cb \in Callbacks : Subscribe(e, cb)
    \/ \E t \in Terms : Sigwinch(t)
    \/ UpdateSize
    \/ \E inp \in PrintInputs : PrintCall(inp)

SpecResize == Init /\ [][NextResize]_vars

----------------------------------------------------------------------------
(* Replaying a recording made earlier.                                     *)

ReplayData == {<<A>>, <<Wd, LF>>}

\* elapsed times of recorded entries, and the steps of the clock, in ticks of 10 ms
ElapsedTimes == {0, 5, 12}
TickSteps == {5, 7}

\* The recordings "with terminal.record() as r: terminal.write(d1); ..." leaves
\* behind: elapsed times never decrease
Recordings ==
    { e \in UNION { [1..n -> ReplayData \X ElapsedTimes] : n \in 0..MaxEntries } :
        \A i \in 1..Len(e) - 1 : e[i][2] <= e[i + 1][2] }

RECURSIVE CursorAfter(_, _)
CursorAfter(cursor, datas) ==
    IF datas = <<>> THEN cursor
    ELSE CursorAfter(write_cursor(cursor, Head(datas), NoPos), Tail(datas))

\* After a recording scope in which the entries e were written and which was
\* then left
InitReplay ==
    /\ phase = "ready"
    /\ environ = PlainEnviron
    /\ _forced_colorsystem = None
    /\ cs_cache = None
    /\ cs_read = None
    /\ cs_reads = 0
    /\ cs_memo_before = None
    /\ init_error = None
    /\ term = CHOOSE t \in Terms : t.tty
    /\ size = _get_size(term)
    /\ pixel_size = _get_pixel_size(term).value
    /\ _listeners = <<>>
    /\ _recorder = 0
    /\ \E e \in Recordings :
         LET datas == [i \in 1..Len(e) |-> e[i][1]] IN
         /\ recorders = <<[recording |-> e, _start_stamp |-> 0]>>
         /\ now = IF e = <<>> THEN 0 ELSE e[Len(e)][2]
         /\ _stream = datas
         /\ written = datas
         /\ _cursor = CursorAfter(origin, datas)
         /\ flushed = (e = <<>>)
         /\ calls = [i \in 1..Len(e) |->
                        [data |-> e[i][1], pos |-> NoPos, flush |-> FALSE, by |-> "write"]]
         /\ scopes = <<[from |-> 0, to |-> Len(e), rejected |-> -1]>>
    /\ err = None
    /\ in_scope = FALSE
    /\ pc = "idle"
    /\ rp = NoReplay
    /\ hpc = "none"
    /\ h_i = 0
    /\ htrace = <<>>
    /\ budget = MaxReplayed
    /\ Elsewhere

NextReplay ==
    \/ \E dt \in TickSteps : Tick(dt)
    \/ RecordEnter
    \/ \E how \in {"return", "raise"} : RecordExit(how)
    \/ \E r \in 1..MaxRecorders : ReplayCall(r)
    \/ ReplayStep
    \/ ReplayReturn

SpecReplay == InitReplay /\ [][NextReplay]_vars

----------------------------------------------------------------------------
(* Terminal.write taken one statement at a time, so that the SIGWINCH      *)
(* handler, which Python runs in the main thread between two bytecodes,    *)
(* can run between two statements of a write.  The handler's own write is  *)
(* taken as one step.                                                      *)

\* terminal.write(data, pos, flush) is called
WriteBegin(inp) ==
    /\ Main
    /\ budget > 0
    /\ wpc' = "clear"
    /\ wcall' = inp
    /\ calls' = Append(calls, [data |-> inp.data, pos |-> inp.pos,
                               flush |-> inp.flush, by |-> "write"])
    /\ budget' = budget - 1
    /\ err' = None
    /\ UNCHANGED <<hlVars, fnVars, colorVars, term, now, size, pixel_size, _listeners,
                   _recorder, recorders, _cursor, _stream, written, flushed, in_scope,
                   pc, rp, hpc, h_i, htrace, scopes>>

\* the main flow runs (the handler is not running) and its write is at `at`
WriteAt(at) == phase = "ready" /\ hpc = "none" /\ wpc = at

\* "if "\x1b[2J" in data: self.clear_stream()", and the position prefix
Write_clear ==
    /\ WriteAt("clear")
    /\ _stream' = IF \E i \in 1..Len(wcall.data) : wcall.data[i] = CLS
                  THEN <<>> ELSE _stream
    /\ wpc' = "record"
    /\ UNCHANGED <<wcall, hlVars, fnVars, colorVars, term, now, size, pixel_size,
                   _listeners, _recorder, recorders, _cursor, written, flushed, err,
                   in_scope, pc, rp, hpc, h_i, htrace, budget, calls, scopes>>

\* "if self._recorder is not None: self._recorder.write(data)"
Write_record ==
    /\ WriteAt("record")
    /\ recorders' = write_recorders(recorders, _recorder, wcall.data, wcall.pos, now)
    /\ wpc' = "stream"
    /\ UNCHANGED <<wcall, hlVars, fnVars, colorVars, term, now, size, pixel_size,
                   _listeners, _recorder, _cursor, _stream, written, flushed, err,
                   in_scope, pc, rp, hpc, h_i, htrace, budget, calls, scopes>>

\* "self._stream.write(data)"
Write_stream ==
    /\ WriteAt("stream")
    /\ _stream' = Append(_stream, positioned(wcall.data, wcall.pos))
    /\ written' = Append(written, positioned(wcall.data, wcall.pos))
    /\ flushed' = FALSE
    /\ wpc' = "flush"
    /\ UNCHANGED <<wcall, hlVars, fnVars, colorVars, term, now, size, pixel_size,
                   _listeners, _recorder, recorders, _cursor, err, in_scope, pc, rp,
                   hpc, h_i, htrace, budget, calls, scopes>>

\* "if flush: self._stream.flush()"
Write_flush ==
    /\ WriteAt("flush")
    /\ flushed' = (wcall.flush \/ flushed)
    /\ wpc' = "cursor"
    /\ UNCHANGED <<wcall, hlVars, fnVars, colorVars, term, now, size, pixel_size,
                   _listeners, _recorder, recorders, _cursor, _stream, written, err,
                   in_scope, pc, rp, hpc, h_i, htrace, budget, calls, scopes>>

\* "self._cursor = (...)", and the return
Write_cursor ==
    /\ WriteAt("cursor")
    /\ _cursor' = write_cursor(_cursor, wcall.data, wcall.pos)
    /\ wpc' = "none"
    /\ wcall' = NoWrite
    /\ UNCHANGED <<hlVars, fnVars, colorVars, term, now, size, pixel_size, _listeners,
                   _recorder, recorders, _stream, written, flushed, err, in_scope, pc,
                   rp, hpc, h_i, htrace, budget, calls, scopes>>

WriteStep ==
    \/ Write_clear
    \/ Write_record
    \/ Write_stream
    \/ Write_flush
    \/ Write_cursor

NextInterrupt ==
    \/ \E inp \in WriteInputs : WriteBegin(inp)
    \/ WriteStep
    \/ RecordEnter
    \/ \E how \in {"return", "raise"} : RecordExit(how)
    \/ \E t \in Terms : Sigwinch(t)
    \/ UpdateSize

SpecInterrupt == Init /\ [][NextInterrupt]_vars

----------------------------------------------------------------------------
(* Resize handling with callbacks that may raise.                          *)

\* a dispatcher that catches what a callback raises and goes on
_call_listener_catches_Any(exc) == TRUE

\* Terminal._call_listener: "callback(data)" stands in no try statement
_call_listener_catches(exc) == FALSE

\* Terminal._call_listener: the callback called raises
CallListenerRaise ==
    /\ hpc = "dispatch"
    /\ RESIZE \in DOMAIN _listeners
    /\ h_i <= Len(_listeners[RESIZE])
    /\ htrace' = Append(htrace,
           <<"raise", _call_listener_order(_listeners[RESIZE], h_i), size>>)
    /\ IF _call_listener_catches("CallbackError")
       THEN /\ h_i' = h_i + 1
            /\ UNCHANGED <<hpc, err>>
       ELSE /\ hpc' = "none"
            /\ h_i' = 0
            /\ err' = "CallbackError"
    /\ UNCHANGED <<otherVars, colorVars, term, now, size, pixel_size, _listeners,
                   _recorder, recorders, _cursor, _stream, written, flushed, in_scope,
                   pc, rp, budget, calls, scopes>>

NextListenerFail ==
    \/ \E e \in {RESIZE, OTHER_EVENT}, cb \in Callbacks : Subscribe(e, cb)
    \/ \E t \in Terms : Sigwinch(t)
    \/ UpdateSize
    \/ CallListenerRaise

SpecListenerFail == Init /\ [][NextListenerFail]_vars

----------------------------------------------------------------------------
(* ColorSystem comparisons.  A value is [cls, v]: its class and, for a      *)
(* ColorSystem member, its name.                                           *)

Member(name) == [cls |-> "ColorSystem", v |-> name]

\* values of other types a member may be compared with
Strangers == { [cls |-> "int", v |-> "1"], [cls |-> "str", v |-> "TRUE"],
               [cls |-> "NoneType", v |-> "None"] }

Values == {Member(n) : n \in ColorSystem} \cup Strangers

\* ColorSystem: the value of each member
value(m) ==
    CASE m.v = "NO_COLOR" -> -1
      [] m.v = "STANDARD" -> 0
      [] m.v = "EIGHT_BIT" -> 1
      [] m.v = "TRUE" -> 2

NotImplemented == "NotImplemented"

\* the objects True and False
Bool(b) == IF b THEN "True" ELSE "False"

\* ColorSystem.__ge__
__ge__(self, other) ==
    IF self.cls = other.cls THEN Bool(value(self) >= value(other)) ELSE NotImplemented

\* ColorSystem.__gt__
__gt__(self, other) ==
    IF self.cls = other.cls THEN Bool(value(self) > value(other)) ELSE NotImplemented

\* an order in which a member is not below itself
__le___Strict(self, other) ==
    IF self.cls = other.cls THEN Bool(value(self) < value(other)) ELSE NotImplemented

\* ColorSystem.__le__
__le__(self, other) ==
    IF self.cls = other.cls THEN Bool(value(self) <= value(other)) ELSE NotImplemented

\* ColorSystem.__lt__
__lt__(self, other) ==
    IF self.cls = other.cls THEN Bool(value(self) < value(other)) ELSE NotImplemented

\* Enum members are singletons: == is identity
__eq__(self, other) == Bool(self = other)

\* the four comparisons and == of one member with one value
Compared(self, other) ==
    [lt |-> __lt__(self, other), le |-> __le__(self, other),
     gt |-> __gt__(self, other), ge |-> __ge__(self, other),
     eq |-> __eq__(self, other)]

\* the Terminal untouched, and three values, the first a member
InitCompare ==
    /\ Ready
    /\ NoWriteInProgress
    /\ NoHighlighter
    /\ arg \in {<<a, b, c>> : a \in {Member(n) : n \in ColorSystem},
                              b \in Values, c \in Values}
    /\ ret = <<>>

\* every comparison of a member among the three with every one of the three
Compare ==
    /\ ret = <<>>
    /\ ret' = [i \in {k \in 1..3 : arg[k].cls = "ColorSystem"} |->
                 [j \in 1..3 |-> Compared(arg[i], arg[j])]]
    /\ UNCHANGED <<arg, intrVars, hlVars, colorVars, termVars>>

NextCompare ==
    \/ Compare

SpecCompare == InitCompare /\ [][NextCompare]_vars

----------------------------------------------------------------------------
(* The pixel-size query on its own: any output device, any reply.          *)

MaxReply == 4        \* characters of a reply between "\x1b[4;" and "t"

ReplyChars == {"6", "8", ";", "x"}

RECURSIVE Strings(_, _)
Strings(chars, n) ==
    IF n = 0 THEN {<<>>}
    ELSE LET shorter == Strings(chars, n - 1)
         IN  shorter \cup {Append(s, c) : s \in {x \in shorter : Len(x) = n - 1}, c \in chars}

\* what getch() returns: the report "\x1b[4;...t" around any body
Replies == {<<"ESC", "[", "4", ";">> \o body \o <<"t">> : body \in Strings(ReplyChars, MaxReply)}

InitPixel ==
    /\ Ready
    /\ NoWriteInProgress
    /\ NoHighlighter
    /\ arg \in {[tty |-> tty, reply |-> r] : tty \in BOOLEAN, r \in Replies}
    /\ ret = <<>>

\* Terminal._get_pixel_size() is called
GetPixelSize ==
    /\ ret = <<>>
    /\ ret' = _get_pixel_size(arg)
    /\ UNCHANGED <<arg, intrVars, hlVars, colorVars, termVars>>

NextPixel ==
    \/ GetPixelSize

SpecPixel == InitPixel /\ [][NextPixel]_vars

----------------------------------------------------------------------------
(* RegexHighlighter (src/pytermgui/highlighters.py).  Strings are sequences *)
(* of one-character strings.  A style is <<name, pattern>>; a pattern is   *)
(* one of two forms of regular expression: [kind |-> "plus", set |-> S]    *)
(* for "[S]+", and [kind |-> "quoted"] for '".+"'.                         *)

QUOTE == "\""

\* "[S]+" at position i of text: the length of the longest run of S there
RECURSIVE RunLength(_, _, _)
RunLength(set, text, i) ==
    IF i <= Len(text) /\ text[i] \in set THEN 1 + RunLength(set, text, i + 1) ELSE 0

\* re: the length of the pattern's match at position i of text, 0 for none
\* (greedy: '".+"' runs to the last quote of the text)
MatchLength(ptrn, text, i) ==
    IF ptrn.kind = "plus" THEN RunLength(ptrn.set, text, i)
    ELSE LET closing == {j \in (i + 2)..Len(text) : text[j] = QUOTE}
         IN  IF i <= Len(text) /\ text[i] = QUOTE /\ closing # {}
             THEN (CHOOSE j \in closing : \A k \in closing : k <= j) - i + 1
             ELSE 0

\* RegexHighlighter.__post_init__: "(?P<name>ptrn)|..." compiled; the
\* alternatives in order, none for an empty styles list
compile(ss) == ss

\* re: the first alternative of the compiled pattern that matches at i, 0 for none
Alternative(pattern, text, i) ==
    LET hits == {k \in 1..Len(pattern) : MatchLength(pattern[k][2], text, i) > 0}
    IN  IF hits = {} THEN 0 ELSE CHOOSE k \in hits : \A h \in hits : k <= h

\* regex.RE_MARKUP.findall(content) finds a tag: "[", one or more characters
\* that are no bracket, "]"
HasMarkup(content) ==
    \E i \in 1..Len(content) : \E j \in (i + 2)..Len(content) :
        /\ content[i] = "["
        /\ content[j] = "]"
        /\ \A k \in (i + 1)..(j - 1) : content[k] \notin {"[", "]"}

\* content.replace("[", r"\[")
RECURSIVE EscapeBrackets(_)
EscapeBrackets(content) ==
    IF content = <<>> THEN <<>>
    ELSE (IF Head(content) = "[" THEN <<"\\", "[">> ELSE <<Head(content)>>)
         \o EscapeBrackets(Tail(content))

S_str == <<"s", "t", "r">>
S_None == <<"N", "o", "n", "e">>

\* _insert_style: the content emitted for a match of the group `name`
_insert_style_content(name, content) ==
    IF name = S_str /\ HasMarkup(content) THEN EscapeBrackets(content) ELSE content

\* _insert_style: "[{tag}]{content}[/{tag}]" with tag = prefix + name
_insert_style(pre, name, content) ==
    <<"[">> \o pre \o name \o <<"]">> \o _insert_style_content(name, content)
    \o <<"[", "/">> \o pre \o name \o <<"]">>

\* self._pattern.sub(_insert_style, text) from position i on, for a pattern
\* with alternatives
RECURSIVE sub_from(_, _, _, _)
sub_from(pattern, pre, text, i) ==
    IF i > Len(text) THEN <<>>
    ELSE LET k == Alternative(pattern, text, i) IN
         IF k = 0 THEN <<text[i]>> \o sub_from(pattern, pre, text, i + 1)
         ELSE LET n == MatchLength(pattern[k][2], text, i)
              IN  _insert_style(pre, pattern[k][1], SubSeq(text, i, i + n - 1))
                  \o sub_from(pattern, pre, text, i + n)

\* the same for the empty pattern, which matches the empty string at every
\* position: lastgroup is None and groups.get("None") is None
RECURSIVE sub_empty(_, _)
sub_empty(pre, text) ==
    _insert_style(pre, S_None, S_None)
    \o (IF text = <<>> THEN <<>> ELSE <<Head(text)>> \o sub_empty(pre, Tail(text)))

\* self._pattern.sub(_insert_style, text)
sub(pattern, pre, text) ==
    IF pattern = <<>> THEN sub_empty(pre, text) ELSE sub_from(pattern, pre, text, 1)

MaxCached == 2       \* different texts a highlighter is called with per run

Lower_ab == [kind |-> "plus", set |-> {"a", "b"}]
Digits_12 == [kind |-> "plus", set |-> {"1", "2"}]
Alnum == [kind |-> "plus", set |-> {"a", "b", "1", "2"}]
Indexing == [kind |-> "plus", set |-> {"a", "b", "[", "]"}]
Quoted == [kind |-> "quoted"]

\* styles lists: the two-style example, two styles that match at the same
\* place, a string-literal style before one whose tokens hold brackets, none
StyleLists ==
    { << <<<<"n", "u", "m">>, Digits_12>>, <<<<"w", "o", "r", "d">>, Lower_ab>> >>,
      << <<<<"k", "w">>, Lower_ab>>, <<<<"w", "o", "r", "d">>, Alnum>> >>,
      << <<S_str, Quoted>>, <<<<"i", "d", "x">>, Indexing>> >>,
      << >> }

Prefixes == { <<"x", ".">>, <<>> }

HlTexts ==
    { <<"a", "b", "1", "2">>,
      <<"a", "1", "b">>,
      <<QUOTE, "[", "a", "]", QUOTE>>,
      <<QUOTE, "a", "[", QUOTE, "b">>,
      <<"a", "[", "b", "]">>,
      <<>> }

\* a RegexHighlighter just constructed
InitHighlight ==
    /\ Ready
    /\ NoWriteInProgress
    /\ NoFunction
    /\ styles \in StyleLists
    /\ prefix \in Prefixes
    /\ _pattern = compile(styles)
    /\ _highlight_cache = <<>>
    /\ hcall = [text |-> <<>>, cache |-> TRUE, ret |-> <<>>, matched |-> FALSE, n |-> 0]

\* a retrieval that does not look at the cache argument
cache_hit_AnyFlag(cache, text, stored) == text \in DOMAIN stored

\* __call__: "if cache and text in self._highlight_cache"
cache_hit(cache, text, stored) == cache /\ text \in DOMAIN stored

\* highlighter(text, cache)
Highlight(text, cache) ==
    /\ text \in DOMAIN _highlight_cache \/ Cardinality(DOMAIN _highlight_cache) < MaxCached
    /\ IF cache_hit(cache, text, _highlight_cache)
       THEN /\ hcall' = [text |-> text, cache |-> cache, ret |-> _highlight_cache[text],
                         matched |-> FALSE, n |-> 1 - hcall.n]
            /\ UNCHANGED _highlight_cache
       ELSE LET result == sub(_pattern, prefix, text) IN
            /\ _highlight_cache' =
                 [t \in DOMAIN _highlight_cache \cup {text} |->
                    IF t = text THEN result ELSE _highlight_cache[t]]
            /\ hcall' = [text |-> text, cache |-> cache, ret |-> result,
                         matched |-> TRUE, n |-> 1 - hcall.n]
    /\ UNCHANGED <<styles, prefix, _pattern, intrVars, fnVars, colorVars, termVars>>

\* highlighter.prefix = new (the dataclass is not frozen)
SetPrefix(new) ==
    /\ new # prefix
    /\ prefix' = new
    /\ UNCHANGED <<styles, _pattern, _highlight_cache, hcall, intrVars, fnVars,
                   colorVars, termVars>>

\* highlighter.styles = new: the compiled pattern stays
SetStyles(new) ==
    /\ new # styles
    /\ styles' = new
    /\ UNCHANGED <<prefix, _pattern, _highlight_cache, hcall, intrVars, fnVars,
                   colorVars, termVars>>

NextHighlight ==
    \/ \E text \in HlTexts, cache \in BOOLEAN : Highlight(text, cache)
    \/ \E new \in Prefixes : SetPrefix(new)
    \/ \E new \in StyleLists : SetStyles(new)

SpecHighlight == InitHighlight /\ [][NextHighlight]_vars

----------------------------------------------------------------------------
(* Properties.                                                             *)

\* the data a write call hands to the stream and the recorder: the call's data,
\* behind "\x1b[row;colH" when the call gives pos = (col, row)
Chunk(c) == IF c.pos = NoPos THEN c.data ELSE <<<<"H", c.pos[2], c.pos[1]>>>> \o c.data

\* the write calls made while recorder r's scope was open
Window(r) ==
    SubSeq(calls, scopes[r].from + 1,
           IF scopes[r].to < 0 THEN Len(calls) ELSE scopes[r].to)

Chunks(r) == [i \in 1..Len(Window(r)) |-> Chunk(Window(r)[i])]

Recorded(r) == [i \in 1..Len(recorders[r].recording) |-> recorders[r].recording[i][1]]

\* C1: while a recording scope is active, entering record() again raises
\* RuntimeError to the caller and leaves the active recorder and every
\* recorder's entries as they were; a write made after the refused attempt is
\* still appended to that first recorder.
C1_RecordingExclusivity ==
    [][ /\ (_recorder # 0 /\ RecordEnter) =>
             /\ err' = "RuntimeError"
             /\ _recorder' = _recorder
             /\ recorders' = recorders
        /\ (/\ _recorder # 0
            /\ scopes[_recorder].rejected >= 0
            /\ Len(calls') = Len(calls) + 1) =>
             /\ _recorder' = _recorder
             /\ Len(recorders') = Len(recorders)
             /\ Recorded(_recorder)' =
                    Append(Recorded(_recorder), Chunk(calls'[Len(calls')]))
      ]_vars

\* C1 witness: inside a scope a second record() was refused, and a write made
\* afterwards is in the first recorder
C1_Witness ==
    /\ _recorder # 0
    /\ scopes[_recorder].rejected >= 0
    /\ Len(calls) > scopes[_recorder].rejected
    /\ Recorded(_recorder) = Chunks(_recorder)
    /\ Recorded(_recorder) # <<>>

\* C2: whenever the caller is outside a recording scope, having left it by
\* falling off the end or by an exception, the Terminal has no active
\* recorder, and a record() entered then succeeds.
C2_RecordingRelease ==
    /\ [](~in_scope => _recorder = 0)
    /\ [][ (in_scope /\ ~in_scope') => _recorder' = 0 ]_vars
    /\ [][ (~in_scope /\ RecordEnter) => (err' = None /\ in_scope' /\ _recorder' # 0) ]_vars

\* C2 witness: a second scope was entered after the first was left, and it was
\* left by an exception, with no recorder remaining
C2_Witness ==
    /\ Len(recorders) = 2
    /\ err = "BodyError"
    /\ ~in_scope
    /\ _recorder = 0

\* C3: the entries of every recorder are the positioned data of the write
\* calls made while its scope was open, one entry per call in call order, and
\* export_text() is the ANSI-stripped concatenation of those chunks.
C3_RecorderRoundTrip ==
    \A r \in 1..Len(recorders) :
        /\ Recorded(r) = Chunks(r)
        /\ export_text(recorders[r]) = strip_ansi(Concat(Chunks(r)))

\* C3 witness: a recorder whose scope opened after an earlier write, holding an
\* entry with an escape sequence that export_text removes
C3_Witness ==
    \E r \in 1..Len(recorders) :
        /\ scopes[r].from >= 1
        /\ Len(recorders[r].recording) >= 1
        /\ export_text(recorders[r]) # _content(recorders[r])

\* C4: replay writes the chunks in order, does not sleep before the first, and
\* before the k-th (k >= 2) sleeps exactly the difference of the elapsed times
\* of entries k and k-1.
C4_ReplayPacing ==
    pc = "replay" =>
        LET rec == recorders[rp.rec].recording
            n   == Len(rp.slept)
        IN  \A k \in 1..n :
                /\ rp.slept[k] = IF k = 1 THEN 0 ELSE rec[k][2] - rec[k - 1][2]
                /\ calls[Len(calls) - n + k].data = rec[k][1]

\* C5: a step never changes a recorder whose scope has been left, and changes
\* no recorder other than the one active when the step is taken.
C5_DetachedImmutable ==
    [][ \A r \in 1..Len(recorders) :
            (scopes[r].to >= 0 \/ r # _recorder) => recorders'[r] = recorders[r]
      ]_vars

\* C5 witness: a recorder with entries whose scope was left, and a write made
\* after that
C5_Witness ==
    \E r \in 1..Len(recorders) :
        /\ scopes[r].to >= 0
        /\ Len(calls) > scopes[r].to
        /\ recorders[r].recording # <<>>

\* the colour system detected from the environment: NO_COLOR present wins, then
\* the COLORTERM value, trimmed and lower-cased
Autodetected(env) ==
    IF env.NO_COLOR.set THEN "NO_COLOR"
    ELSE LET v == Lower(Strip(IF env.COLORTERM.set THEN env.COLORTERM.val ELSE <<>>)) IN
         CASE v = S_24bit \/ v = S_truecolor -> "TRUE"
           [] v = S_256color -> "EIGHT_BIT"
           [] OTHER -> "STANDARD"

\* C6 as stated: the first read returns the override if set, else NO_COLOR if
\* the no-color variable is present, else TRUE / EIGHT_BIT when the COLORTERM
\* value itself is 24bit or truecolor / 256color, else STANDARD.
C6_LiteralPrecedence ==
    (cs_reads = 1 /\ cs_read # None) =>
        cs_read =
            IF _forced_colorsystem # None THEN _forced_colorsystem
            ELSE IF environ.NO_COLOR.set THEN "NO_COLOR"
            ELSE LET v == IF environ.COLORTERM.set THEN environ.COLORTERM.val ELSE <<>> IN
                 CASE v = S_24bit \/ v = S_truecolor -> "TRUE"
                   [] v = S_256color -> "EIGHT_BIT"
                   [] OTHER -> "STANDARD"

\* C6 amended: the same precedence, the COLORTERM value being compared after
\* its surrounding whitespace is stripped and it is lower-cased.
C6_Precedence ==
    (cs_reads = 1 /\ cs_read # None) =>
        cs_read = IF _forced_colorsystem # None THEN _forced_colorsystem
                  ELSE Autodetected(environ)

\* C6 witness: a first read, no override, that answers TRUE for a COLORTERM
\* value that is not literally 24bit or truecolor
C6_Witness ==
    /\ cs_reads = 1
    /\ cs_read = "TRUE"
    /\ _forced_colorsystem = None
    /\ environ.COLORTERM.val \notin {S_24bit, S_truecolor}

\* C7: a read of colorsystem made after the latest assignment to
\* forced_colorsystem returns that override when it is set and the detected
\* value when it is unset, and the memoized value is never anything else.
C7_NoStaleColorsystem ==
    LET current == IF _forced_colorsystem # None THEN _forced_colorsystem
                   ELSE Autodetected(environ)
    IN  /\ cs_read # None => cs_read = current
        /\ (phase = "ready" /\ cs_cache # None) => cs_cache = current

\* C7 witness: a value was memoized, forced_colorsystem was assigned, and the
\* read after it returned a different value
C7_Witness ==
    /\ cs_read # None
    /\ cs_memo_before # None
    /\ cs_memo_before # cs_read

\* C8: with the override variable set to a name that is no ColorSystem member,
\* Terminal() is constructed without raising, has no override, and
\* colorsystem resolves as detected.
C8_UnrecognizedOverrideIgnored ==
    (/\ phase # "new"
     /\ environ.PTG_COLORSYS.set
     /\ environ.PTG_COLORSYS.val \notin ColorSystem) =>
        /\ phase = "ready"
        /\ init_error = None
        /\ (cs_read # None /\ cs_memo_before = None /\ _forced_colorsystem = None)
              => cs_read = Autodetected(environ)

\* what one write call adds to the cursor: the display width of its data
\* without the line boundaries, and the number of "\n" in it
Advance(c) ==
    LET NotBoundary(ch) == ch[1] # "LF" /\ ch[1] # "CR"
        Newline(ch) == ch[1] = "LF"
    IN  << real_length(SelectSeq(Chunk(c), NotBoundary)),
           Len(SelectSeq(Chunk(c), Newline)) >>

RECURSIVE TotalAdvance(_)
TotalAdvance(cs) ==
    IF cs = <<>> THEN <<0, 0>>
    ELSE LET a == Advance(Head(cs))
             rest == TotalAdvance(Tail(cs))
         IN  <<a[1] + rest[1], a[2] + rest[2]>>

\* C9: the tracked cursor is the origin plus, summed over every write call so
\* far (by write, print, replay or the resize handler), the display width of
\* the written data without line breaks and the number of its newlines; each
\* step moves the cursor by exactly the contribution of the writes it makes,
\* and never backwards.
C9_CursorTracking ==
    /\ [](_cursor = << origin[1] + TotalAdvance(calls)[1],
                       origin[2] + TotalAdvance(calls)[2] >>)
    /\ [][ /\ _cursor'[1] >= _cursor[1]
           /\ _cursor'[2] >= _cursor[2]
           /\ Len(calls') = Len(calls) => _cursor' = _cursor
           /\ Len(calls') = Len(calls) + 1 =>
                _cursor' = << _cursor[1] + Advance(calls'[Len(calls')])[1],
                              _cursor[2] + Advance(calls'[Len(calls')])[2] >>
         ]_vars

\* C9 witness: the resize handler and a positioned write have both written,
\* one of them into an active recorder, and the cursor has moved both ways
C9_Witness ==
    /\ \E i \in 1..Len(calls) : calls[i].by = "resize"
    /\ \E i \in 1..Len(calls) : calls[i].pos # NoPos
    /\ _recorder # 0
    /\ recorders[_recorder].recording # <<>>
    /\ _cursor[1] > origin[1]
    /\ _cursor[2] > origin[2]

\* what a whole run of the resize handler does, in order: size, pixel_size,
\* one call per RESIZE subscription with the new size, then the write
HandlerRun ==
    LET new == <<term.cols - 1, term.rows - 1>>
        px  == IF term.tty THEN term.pixels ELSE <<0, 0>>
        L   == IF RESIZE \in DOMAIN _listeners THEN _listeners[RESIZE] ELSE <<>>
    IN  << <<"size", "", new>>, <<"pixel_size", "", px>> >>
        \o [i \in 1..Len(L) |-> <<"call", L[i], new>>]
        \o << <<"write", "", <<Len(calls), 0>>>> >>

IsPrefix(a, b) == Len(a) <= Len(b) /\ a = SubSeq(b, 1, Len(a))

\* C11: while a write call of the main flow is between two of its statements,
\* a resize notification does no more than note the request: the handler has
\* recomputed nothing, called no listener and written nothing until that write
\* has returned.
C11_ResizeDeferred ==
    (wpc \in {"record", "stream", "flush", "cursor"} /\ hpc # "none") => htrace = <<>>

\* C19: the chunks the active recorder has captured and the chunks written to
\* the stream since it was attached agree in order (one is an initial part of
\* the other while a write is under way), and are the same sequence whenever
\* no write and no handler is under way.
C19_RecorderStreamOrder ==
    _recorder # 0 =>
        LET rec == Recorded(_recorder)
            out == SubSeq(written, scopes[_recorder].from + 1, Len(written))
        IN  /\ IsPrefix(rec, out) \/ IsPrefix(out, rec)
            /\ (wpc = "none" /\ hpc = "none") => rec = out

\* C18: a replay writes the entries the recorder held when replay was called,
\* once each and in order, and no more; a different recorder that is active
\* gains exactly those chunks, in order.
C18_ReplayOnce ==
    pc = "replay" =>
        LET n    == Len(rp.slept)
            rec  == recorders[rp.rec].recording
            held == Len(rec) - (IF _recorder = rp.rec THEN n ELSE 0)
        IN  /\ n <= held
            /\ \A k \in 1..n : calls[Len(calls) - n + k].data = rec[k][1]
            /\ (_recorder # 0 /\ _recorder # rp.rec) =>
                 LET got == Recorded(_recorder) IN
                 /\ Len(got) >= n
                 /\ \A k \in 1..n : got[Len(got) - n + k] = rec[k][1]

\* C20: when a RESIZE callback raises during dispatch, the error leaves the
\* dispatcher and the resize handler at once and reaches whatever triggered
\* the handler; size and pixel_size keep the values recomputed for the new
\* window, and the listener lists are as they were.
C20_ListenerFailurePropagates ==
    [][ (Len(htrace') = Len(htrace) + 1 /\ htrace'[Len(htrace')][1] = "raise") =>
            /\ hpc' = "none"
            /\ err' = "CallbackError"
            /\ size' = <<term.cols - 1, term.rows - 1>>
            /\ size' = htrace[1][3]
            /\ pixel_size' = htrace[2][3]
            /\ _listeners' = _listeners
            /\ calls' = calls
      ]_vars

\* C20 witness: the first of two RESIZE callbacks raised after a window
\* change; the handler is over and the second was not called
C20_Witness ==
    /\ hpc = "none"
    /\ err = "CallbackError"
    /\ Len(htrace) = 3
    /\ htrace[3][1] = "raise"
    /\ Len(Subscribed(_listeners, RESIZE)) = 2
    /\ size = _get_size(term)
    /\ size # _get_size(CHOOSE t \in Terms : t.tty)

\* the place of a member in NO_COLOR < STANDARD < EIGHT_BIT < TRUE
Rank(m) ==
    LET order == <<"NO_COLOR", "STANDARD", "EIGHT_BIT", "TRUE">>
    IN  CHOOSE k \in 1..4 : order[k] = m.v

\* C16: on members, <, <=, >, >= are the comparisons of the one total order
\* NO_COLOR < STANDARD < EIGHT_BIT < TRUE (exactly one of a<b, a==b, a>b;
\* a<=b iff a<b or a==b; a>=b iff b<=a; transitive), and each of the four
\* against a value of another type gives NotImplemented.
C16_ColorSystemOrder ==
    ret # <<>> =>
        \A i \in DOMAIN ret : \A j \in 1..3 :
            LET r == ret[i][j] IN
            IF arg[j].cls = "ColorSystem"
            THEN /\ \A x \in DOMAIN r : r[x] \in {"True", "False"}
                 /\ (r.lt = "True") = (Rank(arg[i]) < Rank(arg[j]))
                 /\ (r.gt = "True") = (Rank(arg[i]) > Rank(arg[j]))
                 /\ Cardinality({x \in {"lt", "eq", "gt"} : r[x] = "True"}) = 1
                 /\ (r.le = "True") = (r.lt = "True" \/ r.eq = "True")
                 /\ r.ge = ret[j][i].le
                 /\ \A k \in DOMAIN ret :
                      (r.lt = "True" /\ ret[j][k].lt = "True") => ret[i][k].lt = "True"
            ELSE /\ r.lt = NotImplemented
                 /\ r.le = NotImplemented
                 /\ r.gt = NotImplemented
                 /\ r.ge = NotImplemented

\* C16 witness: two different members in rising order, compared both ways and
\* with themselves, and the lower one compared with a value of another type
C16_Witness ==
    /\ ret # <<>>
    /\ DOMAIN ret = {1, 2}
    /\ ret[1][2].lt = "True"
    /\ ret[2][1].ge = "True"
    /\ ret[1][1].le = "True"
    /\ ret[1][3].lt = NotImplemented

\* the reply body is "height;width": two runs of digits around one separator
WellFormedReply(body) ==
    \E i \in 2..(Len(body) - 1) :
        /\ body[i] = ";"
        /\ \A j \in 1..Len(body) : j # i => body[j] \in Digits

\* the reply body has no separator, or has one and a field that is no integer
MalformedReply(body) ==
    \/ \A i \in 1..Len(body) : body[i] # ";"
    \/ \E i \in 1..Len(body) : body[i] \notin Digits \cup {";"}
    \/ body[1] = ";"
    \/ body[Len(body)] = ";"
    \/ \E i \in 1..(Len(body) - 1) : body[i] = ";" /\ body[i + 1] = ";"

\* C17: the pixel-size query never raises; it returns (0, 0) when the output
\* is no interactive terminal or the reply is malformed, and (width, height)
\* for a reply "height;width".
C17_PixelSizeNonFatal ==
    ret # <<>> =>
        LET body == SubSeq(arg.reply, 5, Len(arg.reply) - 1) IN
        /\ ret.raised = None
        /\ (~arg.tty \/ MalformedReply(body)) => ret.value = <<0, 0>>
        /\ (arg.tty /\ WellFormedReply(body)) =>
             \E i \in 2..(Len(body) - 1) :
                /\ body[i] = ";"
                /\ ret.value = << Decimal(SubSeq(body, i + 1, Len(body))),
                                  Decimal(SubSeq(body, 1, i - 1)) >>

\* the text from position i on with every leftmost non-overlapping match
\* wrapped in the tags of the earliest style of ss that matches where it
\* starts, the rest copied; with `escape`, the content of a token of the style
\* named str has every "[" escaped
RECURSIVE Tagged(_, _, _, _, _)
Tagged(ss, pre, text, i, escape) ==
    IF i > Len(text) THEN <<>>
    ELSE LET matching == {k \in 1..Len(ss) : MatchLength(ss[k][2], text, i) > 0} IN
         IF matching = {} THEN <<text[i]>> \o Tagged(ss, pre, text, i + 1, escape)
         ELSE LET k == CHOOSE m \in matching : \A o \in matching : m <= o
                  n == MatchLength(ss[k][2], text, i)
                  name == ss[k][1]
                  matched == SubSeq(text, i, i + n - 1)
                  content == IF escape /\ name = S_str THEN EscapeBrackets(matched)
                             ELSE matched
              IN  <<"[">> \o pre \o name \o <<"]">> \o content
                  \o <<"[", "/">> \o pre \o name \o <<"]">>
                  \o Tagged(ss, pre, text, i + n, escape)

\* a step is a highlighter call that ran the matching logic
MatchingCall == hcall'.n # hcall.n /\ hcall'.matched

\* C12: a call returns the text with each leftmost non-overlapping match
\* replaced by [{prefix}{name}]{matched text}[/{prefix}{name}], name being the
\* earliest style that matches there, and everything else copied in place; the
\* styles num = digits, word = letters with prefix "x." turn "ab12" into
\* "[x.word]ab[/x.word][x.num]12[/x.num]".
C12_HighlighterOutput ==
    [][ MatchingCall =>
          /\ hcall'.ret = Tagged(_pattern, prefix, hcall'.text, 1, FALSE)
          /\ ( /\ _pattern = << <<<<"n", "u", "m">>, Digits_12>>,
                                <<<<"w", "o", "r", "d">>, Lower_ab>> >>
               /\ prefix = <<"x", ".">>
               /\ hcall'.text = <<"a", "b", "1", "2">> ) =>
                 hcall'.ret = <<"[", "x", ".", "w", "o", "r", "d", "]", "a", "b",
                                "[", "/", "x", ".", "w", "o", "r", "d", "]",
                                "[", "x", ".", "n", "u", "m", "]", "1", "2",
                                "[", "/", "x", ".", "n", "u", "m", "]">>
      ]_vars

\* C13: a call with cache=True on a text that is a cache key returns the
\* stored result, does not run the matching logic and leaves the cache as it
\* is; every other call runs the matching logic, a call with cache=False even
\* when the key is present; every call that runs it stores its result under
\* the input text and changes no other entry.
C13_CacheProtocol ==
    [][ hcall'.n # hcall.n =>
          LET t == hcall'.text
              hit == hcall'.cache /\ t \in DOMAIN _highlight_cache
          IN  /\ hit => /\ ~hcall'.matched
                        /\ hcall'.ret = _highlight_cache[t]
                        /\ _highlight_cache' = _highlight_cache
              /\ ~hit => hcall'.matched
              /\ hcall'.matched =>
                   /\ DOMAIN _highlight_cache' = DOMAIN _highlight_cache \cup {t}
                   /\ _highlight_cache'[t] = hcall'.ret
                   /\ \A u \in DOMAIN _highlight_cache \ {t} :
                        _highlight_cache'[u] = _highlight_cache[u]
      ]_vars

\* C13 witness: a call with cache=True answered from a cache of two entries
\* with a tagged text
C13_Witness ==
    /\ hcall.cache
    /\ ~hcall.matched
    /\ Cardinality(DOMAIN _highlight_cache) = 2
    /\ hcall.text \in DOMAIN _highlight_cache
    /\ hcall.ret = _highlight_cache[hcall.text]
    /\ hcall.ret # hcall.text

\* C14: every cache entry is what an uncached call on its key would return in
\* the present state.
C14_CacheConsistent ==
    \A t \in DOMAIN _highlight_cache :
        _highlight_cache[t] = sub(_pattern, prefix, t)

\* C15: every token of the style named str is emitted with every "[" of its
\* content escaped, complete tag or not; tokens of every other style are
\* emitted with their content as matched.
C15_StringEscaping ==
    [][ (MatchingCall /\ _pattern # <<>>) =>
          hcall'.ret = Tagged(_pattern, prefix, hcall'.text, 1, TRUE)
      ]_vars

====
